---- MODULE Spec2Model ----
(***************************************************************************)
(* State-machine model of src/app.py (the LocalChat / NovuChat Flask app): *)
(* the three tables (users, businesses, leads), the cookie session of each *)
(* browser, the clock, and the request handlers /signup, /login,           *)
(* /forgot-password, /reset-password, /dashboard, /admin/businesses,       *)
(* /admin/approve, /admin/deactivate, /chat and /lead, and init_db.        *)
(*                                                                         *)
(* Text is a sequence of one-character strings, so that strip(), lower()   *)
(* and split() are computed as Python computes them.  A form or JSON field *)
(* that is missing is the empty text: the handlers read every field as     *)
(* (value or "").strip(), which maps a missing field and "" alike.         *)
(*                                                                         *)
(* A reset token (secrets.token_urlsafe) is a number never drawn before;    *)
(* 0 is the absent or blank ?token= and the NULL of the column.            *)
(*                                                                         *)
(* A handler that issues several database statements (signup,              *)
(* reset_password) is one action per statement, run by a server thread     *)
(* (pc, loc); the others touch the database once and are one action.       *)
(***************************************************************************)
EXTENDS Integers, Sequences, FiniteSets, TLC

VARIABLES
    config,      \* environment read at import time (ADMIN_EMAIL, RESEND_API_KEY)
    users,       \* table users: row i has id i
    businesses,  \* table businesses
    leads,       \* table leads
    session,     \* session[c]: the user_id in browser c's session cookie, 0 when absent
    now,         \* datetime.utcnow(), in hours
    issued,      \* number of reset tokens drawn from secrets.token_urlsafe so far
    pc,          \* pc[w]: where server thread w stands in a multi-statement handler
    loc,         \* loc[w]: the local variables of the handler thread w is running
    last,        \* the last request answered: what was asked, the response, the emails handed to send_email
    accepted,    \* history: accepted[t] = number of POST /reset-password that changed a password with token t
    posted,      \* history: number of requests.post calls made to the chat-completion API
    chat_logs    \* the lines appended to CHAT_LOG_FILE

vars == <<config, users, businesses, leads, session, now, issued, pc, loc, last, accepted, posted, chat_logs>>

-----------------------------------------------------------------------------
(* Bounds of the model *)

MaxBusinesses == 3
MaxLeads == 2
MaxTokens == 2
MaxTime == 1
MaxChats == 2
MaxNameLen == 3

\* server threads that can be inside a handler at the same time; browsers, each with its session cookie
Threads == {1, 2}
Browsers == {1, 2}

-----------------------------------------------------------------------------
(* Text *)

Min(a, b) == IF a < b THEN a ELSE b

UpperToLower ==
    [A |-> "a", B |-> "b", P |-> "p", R |-> "r", T |-> "t"]

LowerLetters ==
    {"a", "b", "c", "d", "e", "f", "g", "h", "i", "j", "k", "l", "m",
     "n", "o", "p", "q", "r", "s", "t", "u", "v", "w", "x", "y", "z"}

DigitChars == <<"0", "1", "2", "3", "4", "5", "6", "7", "8", "9">>

Whitespace == {" ", "\n", "\t"}

isspace(c) == c \in Whitespace

\* letters outside ASCII: str.isalnum, str.lower and str.strip go by Unicode
NonAsciiLetters == {"é"}

isalnum(c) ==
    \/ c \in LowerLetters
    \/ c \in DOMAIN UpperToLower
    \/ c \in NonAsciiLetters
    \/ \E d \in 1..Len(DigitChars) : DigitChars[d] = c

lower_char(c) == IF c \in DOMAIN UpperToLower THEN UpperToLower[c] ELSE c

lower(s) == [i \in 1..Len(s) |-> lower_char(s[i])]

RECURSIVE lstrip(_)
lstrip(s) == IF s # <<>> /\ isspace(Head(s)) THEN lstrip(Tail(s)) ELSE s

RECURSIVE rstrip(_)
rstrip(s) ==
    IF s # <<>> /\ isspace(s[Len(s)]) THEN rstrip(SubSeq(s, 1, Len(s) - 1)) ELSE s

strip(s) == rstrip(lstrip(s))

replace(s, old, new) == [i \in 1..Len(s) |-> IF s[i] = old THEN new ELSE s[i]]

\* the pieces of s between separator characters, empty pieces dropped:
\* s.split() for whitespace, filter(None, s.split("-")) for "-"
RECURSIVE split_acc(_, _, _, _)
split_acc(s, seps, cur, acc) ==
    IF s = <<>>
    THEN IF cur = <<>> THEN acc ELSE Append(acc, cur)
    ELSE IF Head(s) \in seps
         THEN split_acc(Tail(s), seps, <<>>, IF cur = <<>> THEN acc ELSE Append(acc, cur))
         ELSE split_acc(Tail(s), seps, Append(cur, Head(s)), acc)

split(s) == split_acc(s, Whitespace, <<>>, <<>>)

split_dash(s) == split_acc(s, {"-"}, <<>>, <<>>)

RECURSIVE join(_, _)
join(sep, parts) ==
    IF parts = <<>> THEN <<>>
    ELSE IF Len(parts) = 1 THEN parts[1]
    ELSE parts[1] \o sep \o join(sep, Tail(parts))

RECURSIVE str(_)
str(n) == IF n < 10 THEN <<DigitChars[n + 1]>> ELSE str(n \div 10) \o <<DigitChars[(n % 10) + 1]>>

-----------------------------------------------------------------------------
(* Values *)

None == <<"None">>      \* NULL in a text column
NoToken == 0            \* NULL in users.reset_token; also the absent ?token=
NoTime == -1            \* NULL in users.reset_expires_at

DEMO == <<"d", "e", "m", "o">>
BIZ == <<"b", "i", "z">>
SlugMax == 32
ResetHours == 1

DEFAULT_ADMIN_EMAIL == <<"d", "@">>
ADMIN_PASSWORD == <<"q">>

\* werkzeug.security: the hash of a password verifies that password and no other
generate_password_hash(password) == <<"pbkdf2", password>>

check_password_hash(pwhash, password) == pwhash = <<"pbkdf2", password>>

-----------------------------------------------------------------------------
(* Queries *)

UserIds == 1..Len(users)

\* db.query(User).filter(User.email == email).first(): the id, 0 for None
user_by_email(email) ==
    IF \E i \in UserIds : users[i].email = email
    THEN CHOOSE i \in UserIds :
            /\ users[i].email = email
            /\ \A j \in UserIds : users[j].email = email => i <= j
    ELSE 0

\* db.query(User).filter(User.reset_token == token).first()
user_by_token(token) ==
    IF \E i \in UserIds : users[i].reset_token = token
    THEN CHOOSE i \in UserIds :
            /\ users[i].reset_token = token
            /\ \A j \in UserIds : users[j].reset_token = token => i <= j
    ELSE 0

\* db.query(User).filter(User.id == user_id).first()
user_by_id(user_id) == IF user_id \in UserIds THEN user_id ELSE 0

\* db.query(Business).filter(Business.business_id == business_id).first(): the row number, 0 for None
business_by_id(business_id) ==
    IF \E i \in 1..Len(businesses) : businesses[i].business_id = business_id
    THEN CHOOSE i \in 1..Len(businesses) :
            /\ businesses[i].business_id = business_id
            /\ \A j \in 1..Len(businesses) : businesses[j].business_id = business_id => i <= j
    ELSE 0

-----------------------------------------------------------------------------
(* Helpers of the application *)

\* slug_base with a slip: every character that is not alphanumeric becomes a "-" of its own
slug_base_keeps_runs(name) ==
    LET raw == lower(strip(name))
        dashed == [i \in 1..Len(raw) |-> IF isalnum(raw[i]) THEN raw[i] ELSE "-"]
        slug == IF dashed = <<>> THEN BIZ ELSE dashed
    IN  SubSeq(slug, 1, Min(Len(slug), SlugMax))

\* the part of slugify_business_id before the database loop
slug_base(name) ==
    LET raw == lower(strip(name))
        dashed == [i \in 1..Len(raw) |-> IF isalnum(raw[i]) THEN raw[i] ELSE "-"]
        joined == join(<<"-">>, split_dash(dashed))
        slug == IF joined = <<>> THEN BIZ ELSE joined
    IN  SubSeq(slug, 1, Min(Len(slug), SlugMax))

\* f"{base}-{i}"
slug_candidate(base, i) == base \o <<"-">> \o str(i)

\* what one call of send_email can do: print only when the provider is not
\* configured; otherwise post, and the post is answered 2xx, answered >= 300
\* or raises.  Every outcome returns normally to the caller.
send_outcomes ==
    IF config.RESEND_API_KEY = <<>> \/ config.EMAIL_FROM_ADDRESS = <<>>
    THEN {"disabled"}
    ELSE {"sent", "status_error", "exception"}

\* text_body is kept as the reset token the link in it carries, NoToken in the other emails
send_email(to_email, subject, text_body, outcome) ==
    [to |-> to_email, subject |-> subject, text_body |-> text_body, outcome |-> outcome]

\* get_current_user: the id of the session's user row, 0 for (None, None, None)
get_current_user(c) == IF session[c] = 0 THEN 0 ELSE user_by_id(session[c])

\* admin_required with a slip: any logged-in user passes
admin_required_any_user(c) == get_current_user(c) # 0

\* the test of admin_required
admin_required(c) ==
    LET u == get_current_user(c) IN u # 0 /\ users[u].role = "admin"

\* the first rows init_db writes into an empty database
init_admin(cfg) ==
    [email |-> IF cfg.ADMIN_EMAIL # <<>> THEN cfg.ADMIN_EMAIL ELSE DEFAULT_ADMIN_EMAIL,
     password_hash |-> generate_password_hash(ADMIN_PASSWORD),
     role |-> "admin",
     business_id |-> None,
     is_active |-> TRUE,
     reset_token |-> NoToken,
     reset_expires_at |-> NoTime]

init_demo ==
    [business_id |-> DEMO,
     name |-> <<"D">>,
     contact |-> <<"5", "\n", "h", "@">>]

-----------------------------------------------------------------------------
(* The answer to a request: status, the message shown, the emails handed to send_email *)

Response(request, status, message, mail) ==
    [request |-> request, status |-> status, message |-> message, mail |-> mail]

-----------------------------------------------------------------------------
(* Start: the environment, and the database as init_db leaves it *)

ResendKeys == {<<>>, <<"k">>}

Idle == [op |-> "idle"]

AuthConfigs ==
    [ADMIN_EMAIL : {<<"r", "@">>}, RESEND_API_KEY : {<<>>}, EMAIL_FROM_ADDRESS : {<<"f", "@">>}]

LeadConfigs ==
    [ADMIN_EMAIL : {<<>>, <<"r", "@">>}, RESEND_API_KEY : ResendKeys,
     EMAIL_FROM_ADDRESS : {<<"f", "@">>}]

ChatConfigs ==
    [ADMIN_EMAIL : {<<>>}, RESEND_API_KEY : {<<>>}, EMAIL_FROM_ADDRESS : {<<"f", "@">>},
     OPENAI_API_KEY : {<<>>, <<"k">>}]

StartConfigs ==
    [ADMIN_EMAIL : {<<>>, <<"R", "@">>}, RESEND_API_KEY : {<<>>}, EMAIL_FROM_ADDRESS : {<<"f", "@">>}]

InitWith(configs) ==
    /\ config \in configs
    /\ users = <<init_admin(config)>>
    /\ businesses = <<init_demo>>
    /\ leads = <<>>
    /\ session = [c \in Browsers |-> 0]
    /\ now = 0
    /\ issued = 0
    /\ pc = [w \in Threads |-> "idle"]
    /\ loc = [w \in Threads |-> Idle]
    /\ last = Response([op |-> "init_db"], 0, "", <<>>)
    /\ accepted = [t \in 1..MaxTokens |-> 0]
    /\ posted = 0
    /\ chat_logs = <<>>

-----------------------------------------------------------------------------------------------------------------------------------------------------
(* POST /signup *)

new_business(l) ==
    [business_id |-> l.biz_id, name |-> l.business_name, contact |-> l.phone]

new_user(l) ==
    [email |-> l.email,
     password_hash |-> generate_password_hash(l.password),
     role |-> "business",
     business_id |-> l.biz_id,
     is_active |-> FALSE,
     reset_token |-> NoToken,
     reset_expires_at |-> NoTime]

\* lines 2627-2648: read the form, validate, look the email up
signup(w, form) ==
    LET owner_name == strip(form.owner_name)
        email == lower(strip(form.email))
        password == strip(form.password)
        business_name == strip(form.business_name)
        phone == strip(form.phone)
        request == [op |-> "signup", form |-> form]
    IN  /\ pc[w] = "idle"
        /\ Len(businesses) + Cardinality({v \in Threads : loc[v].op = "signup"}) < MaxBusinesses
        /\ IF owner_name = <<>> \/ email = <<>> \/ password = <<>> \/ business_name = <<>>
           THEN /\ last' = Response(request, 200, "required", <<>>)
                /\ UNCHANGED <<pc, loc>>
           ELSE IF user_by_email(email) # 0
           THEN /\ last' = Response(request, 200, "exists", <<>>)
                /\ UNCHANGED <<pc, loc>>
           ELSE /\ pc' = [pc EXCEPT ![w] = "slugify"]
                /\ loc' = [loc EXCEPT ![w] =
                              [op |-> "signup", request |-> request, email |-> email,
                               password |-> password, business_name |-> business_name,
                               phone |-> phone, base |-> slug_base(business_name),
                               candidate |-> slug_base(business_name), i |-> 1]]
                /\ UNCHANGED last
        /\ UNCHANGED <<config, users, businesses, leads, session, now, issued, accepted, posted, chat_logs>>

\* lines 166-171: one query of the loop of slugify_business_id
slugify_business_id(w) ==
    /\ pc[w] = "slugify"
    /\ IF business_by_id(loc[w].candidate) # 0
       THEN /\ loc' = [loc EXCEPT ![w].i = @ + 1,
                                  ![w].candidate = slug_candidate(loc[w].base, loc[w].i + 1)]
            /\ UNCHANGED pc
       ELSE /\ loc' = [loc EXCEPT ![w] =
                          [op |-> "signup", request |-> loc[w].request, email |-> loc[w].email,
                           password |-> loc[w].password,
                           business_name |-> loc[w].business_name,
                           phone |-> loc[w].phone, biz_id |-> loc[w].candidate]]
            /\ pc' = [pc EXCEPT ![w] = "add_business"]
    /\ UNCHANGED <<config, users, businesses, leads, session, now, issued, last, accepted, posted, chat_logs>>

\* unique_business_id with a slip: the column is declared without unique=True
unique_business_id_unchecked(business_id) == TRUE

\* line 55: the unique index lets an INSERT through when no row has the business_id
unique_business_id(business_id) == business_by_id(business_id) = 0

\* line 73: the unique index on users.email
unique_email(email) == user_by_email(email) = 0

\* lines 2650-2661: insert the Business row; business_id is a unique column
signup_add_business(w) ==
    /\ pc[w] = "add_business"
    /\ IF ~unique_business_id(loc[w].biz_id)
       THEN /\ last' = Response(loc[w].request, 500, "IntegrityError businesses.business_id", <<>>)
            /\ pc' = [pc EXCEPT ![w] = "idle"]
            /\ loc' = [loc EXCEPT ![w] = Idle]
            /\ UNCHANGED businesses
       ELSE /\ businesses' = Append(businesses, new_business(loc[w]))
            /\ pc' = [pc EXCEPT ![w] = "add_user"]
            /\ UNCHANGED <<loc, last>>
    /\ UNCHANGED <<config, users, leads, session, now, issued, accepted, posted, chat_logs>>

\* lines 2663-2690: insert the User row (email is a unique column), tell the admin
signup_add_user(w) ==
    /\ pc[w] = "add_user"
    /\ IF ~unique_email(loc[w].email)
       THEN /\ last' = Response(loc[w].request, 500, "IntegrityError users.email", <<>>)
            /\ UNCHANGED users
       ELSE /\ users' = Append(users, new_user(loc[w]))
            /\ \E outcome \in send_outcomes :
                 last' = Response(loc[w].request, 200, "created",
                            IF config.ADMIN_EMAIL # <<>>
                            THEN <<send_email(config.ADMIN_EMAIL, "signup", NoToken, outcome)>>
                            ELSE <<>>)
    /\ pc' = [pc EXCEPT ![w] = "idle"]
    /\ loc' = [loc EXCEPT ![w] = Idle]
    /\ UNCHANGED <<config, businesses, leads, session, now, issued, accepted, posted, chat_logs>>

-----------------------------------------------------------------------------
(* init_db, run by every server process when it imports the module *)

InitEmpty(configs) ==
    /\ config \in configs
    /\ users = <<>>
    /\ businesses = <<>>
    /\ leads = <<>>
    /\ session = [c \in Browsers |-> 0]
    /\ now = 0
    /\ issued = 0
    /\ pc = [w \in Threads |-> "init_db"]
    /\ loc = [w \in Threads |-> Idle]
    /\ last = Response([op |-> "init_db"], 0, "", <<>>)
    /\ accepted = [t \in 1..MaxTokens |-> 0]
    /\ posted = 0
    /\ chat_logs = <<>>

\* line 208: is there a row with role "admin"
init_db(w) ==
    /\ pc[w] = "init_db"
    /\ pc' = [pc EXCEPT ![w] = IF \E u \in UserIds : users[u].role = "admin"
                               THEN "init_demo" ELSE "init_add_admin"]
    /\ UNCHANGED <<config, users, businesses, leads, session, now, issued, loc, last, accepted, posted, chat_logs>>

\* lines 210-219: insert the admin row; the process dies on an IntegrityError
init_db_add_admin(w) ==
    /\ pc[w] = "init_add_admin"
    /\ IF ~unique_email(init_admin(config).email)
       THEN /\ pc' = [pc EXCEPT ![w] = "exited"]
            /\ UNCHANGED users
       ELSE /\ users' = Append(users, init_admin(config))
            /\ pc' = [pc EXCEPT ![w] = "init_demo"]
    /\ UNCHANGED <<config, businesses, leads, session, now, issued, loc, last, accepted, posted, chat_logs>>

\* line 223: is there a Business row "demo"
init_db_demo(w) ==
    /\ pc[w] = "init_demo"
    /\ pc' = [pc EXCEPT ![w] = IF business_by_id(DEMO) # 0 THEN "idle" ELSE "init_add_demo"]
    /\ UNCHANGED <<config, users, businesses, leads, session, now, issued, loc, last, accepted, posted, chat_logs>>

\* lines 225-240: insert the demo row; after it the process serves requests
init_db_add_demo(w) ==
    /\ pc[w] = "init_add_demo"
    /\ IF ~unique_business_id(init_demo.business_id)
       THEN /\ pc' = [pc EXCEPT ![w] = "exited"]
            /\ UNCHANGED businesses
       ELSE /\ businesses' = Append(businesses, init_demo)
            /\ pc' = [pc EXCEPT ![w] = "idle"]
    /\ UNCHANGED <<config, users, leads, session, now, issued, loc, last, accepted, posted, chat_logs>>

\* a process that is not inside a request is started again (a crash, a deploy)
restart(w) ==
    /\ pc[w] \in {"idle", "exited"}
    /\ pc' = [pc EXCEPT ![w] = "init_db"]
    /\ UNCHANGED <<config, users, businesses, leads, session, now, issued, loc, last, accepted, posted, chat_logs>>

-----------------------------------------------------------------------------
(* POST /login *)

\* login_result with a slip: the pending test comes before the password test
login_result_pending_first(user, password) ==
    IF user = 0 THEN "invalid"
    ELSE IF users[user].role = "business" /\ ~users[user].is_active THEN "pending"
    ELSE IF ~check_password_hash(users[user].password_hash, password) THEN "invalid"
    ELSE "ok"

\* lines 2710-2719: what login answers for the row it found (0: none) and the password
login_result(user, password) ==
    IF user = 0 \/ ~check_password_hash(users[user].password_hash, password)
    THEN "invalid"
    ELSE IF users[user].role = "business" /\ ~users[user].is_active
    THEN "pending"
    ELSE "ok"

login(c, form) ==
    LET email == lower(strip(form.email))
        password == form.password
        user == user_by_email(email)
        result == login_result(user, password)
        request == [op |-> "login", browser |-> c, form |-> form]
    IN  /\ IF result = "ok"
           THEN /\ session' = [session EXCEPT ![c] = user]
                /\ last' = Response(request, 302,
                              IF users[user].role = "admin" THEN "admin_businesses" ELSE "dashboard",
                              <<>>)
           ELSE /\ last' = Response(request, 200, result, <<>>)
                /\ UNCHANGED session
        /\ UNCHANGED <<config, users, businesses, leads, now, issued, pc, loc, accepted, posted, chat_logs>>

-----------------------------------------------------------------------------
(* GET /admin/approve/<user_id>, GET /admin/deactivate/<user_id> *)

\* set_active with a slip: the flag is written False whatever was asked
set_active_always_false(user_id, value) == [users EXCEPT ![user_id].is_active = FALSE]

set_active(user_id, value) == [users EXCEPT ![user_id].is_active = value]

\* approve_mail with a slip: the owner is not told
approve_mail_none(user_id, outcome) == <<>>

\* lines 2855-2861: the email an approval sets off
approve_mail(user_id, outcome) ==
    <<send_email(users[user_id].email, "approved", NoToken, outcome)>>

admin_approve(c, user_id) ==
    LET request == [op |-> "admin_approve", browser |-> c, user_id |-> user_id]
    IN  /\ IF ~admin_required(c)
           THEN /\ last' = Response(request, 302, "login", <<>>)
                /\ UNCHANGED users
           ELSE IF user_by_id(user_id) = 0
           THEN /\ last' = Response(request, 404, "User not found", <<>>)
                /\ UNCHANGED users
           ELSE /\ users' = set_active(user_id, TRUE)
                /\ \E outcome \in send_outcomes :
                     last' = Response(request, 302, "admin_businesses", approve_mail(user_id, outcome))
        /\ UNCHANGED <<config, businesses, leads, session, now, issued, pc, loc, accepted, posted, chat_logs>>

admin_deactivate(c, user_id) ==
    LET request == [op |-> "admin_deactivate", browser |-> c, user_id |-> user_id]
    IN  /\ IF ~admin_required(c)
           THEN /\ last' = Response(request, 302, "login", <<>>)
                /\ UNCHANGED users
           ELSE IF user_by_id(user_id) = 0
           THEN /\ last' = Response(request, 404, "User not found", <<>>)
                /\ UNCHANGED users
           ELSE /\ users' = set_active(user_id, FALSE)
                /\ last' = Response(request, 302, "admin_businesses", <<>>)
        /\ UNCHANGED <<config, businesses, leads, session, now, issued, pc, loc, accepted, posted, chat_logs>>

-----------------------------------------------------------------------------
(* GET /logout, GET /dashboard, GET /admin/businesses *)

\* a rendered page: the answer, and the rows the template is given
Page(request, message, shown) ==
    [request |-> request, status |-> 200, message |-> message, mail |-> <<>>, shown |-> shown]

logout(c) ==
    /\ session' = [session EXCEPT ![c] = 0]
    /\ last' = Response([op |-> "logout", browser |-> c], 302, "login", <<>>)
    /\ UNCHANGED <<config, users, businesses, leads, now, issued, pc, loc, accepted, posted, chat_logs>>

\* business_required with a slip: is_active is not looked at
business_required_role_only(c) ==
    LET u == get_current_user(c)
    IN  IF u = 0 \/ users[u].role # "business" THEN "login" ELSE "ok"

\* lines 143-153: what the decorator decides for the session's user row
business_required(c) ==
    LET u == get_current_user(c)
    IN  IF u = 0 \/ users[u].role # "business" THEN "login"
        ELSE IF ~users[u].is_active THEN "pending"
        ELSE "ok"

DashboardLimit == 50

\* leads_of with a slip: the filter on business_id is missing
leads_of_everyone(business_id, k, acc) == [i \in 1..k |-> leads[k + 1 - i]]

\* lines 2813-2819: the leads of a business_id, newest first, at most DashboardLimit
RECURSIVE leads_of(_, _, _)
leads_of(business_id, k, acc) ==
    IF k = 0 \/ Len(acc) = DashboardLimit THEN acc
    ELSE leads_of(business_id, k - 1,
                  IF leads[k].business_id = business_id THEN Append(acc, leads[k]) ELSE acc)

dashboard(c) ==
    LET request == [op |-> "dashboard", browser |-> c]
        gate == business_required(c)
        u == get_current_user(c)
        business_id == users[u].business_id
        biz == business_by_id(business_id)
    IN  /\ last' = IF gate = "login" THEN Response(request, 302, "login", <<>>)
                   ELSE IF gate = "pending"
                   THEN Response(request, 403, "Your account is pending approval.", <<>>)
                   ELSE Page(request, "dashboard",
                             [biz |-> IF biz = 0 THEN <<>> ELSE <<businesses[biz]>>,
                              leads |-> leads_of(business_id, Len(leads), <<>>)])
        /\ UNCHANGED <<config, users, businesses, leads, session, now, issued, pc, loc, accepted, posted, chat_logs>>

\* lines 2832-2838: the business users that have a Business row, each with the
\* number of that row (the order of the rows on the page is left out)
admin_rows ==
    {[user |-> u, business |-> business_by_id(users[u].business_id)] :
        u \in {v \in UserIds : /\ users[v].role = "business"
                               /\ business_by_id(users[v].business_id) # 0}}

admin_businesses(c) ==
    LET request == [op |-> "admin_businesses", browser |-> c]
    IN  /\ last' = IF ~admin_required(c)
                   THEN Response(request, 302, "login", <<>>)
                   ELSE Page(request, "admin_businesses",
                             {[user |-> users[r.user], business |-> businesses[r.business]] :
                                 r \in admin_rows})
        /\ UNCHANGED <<config, users, businesses, leads, session, now, issued, pc, loc, accepted, posted, chat_logs>>

-----------------------------------------------------------------------------
(* POST /forgot-password *)

\* forgot_message with a slip: an unknown email is told so
forgot_message_leaks(user) == IF user = 0 THEN "no account" ELSE "generic"

\* line 2757: the message shown after every POST, whatever row was found (0: none)
forgot_message(user) == "generic"

forgot_password(form) ==
    LET email == lower(strip(form.email))
        user == user_by_email(email)
        token == issued + 1
        request == [op |-> "forgot_password", form |-> form]
    IN  /\ IF user # 0
           THEN /\ issued < MaxTokens
                /\ issued' = token
                /\ users' = [users EXCEPT ![user].reset_token = token,
                                          ![user].reset_expires_at = now + ResetHours]
                /\ \E outcome \in send_outcomes :
                     last' = Response(request, 200, forgot_message(user),
                                <<send_email(users[user].email, "reset", token, outcome)>>)
           ELSE /\ last' = Response(request, 200, forgot_message(user), <<>>)
                /\ UNCHANGED <<users, issued>>
        /\ UNCHANGED <<config, businesses, leads, session, now, pc, loc, accepted, posted, chat_logs>>

-----------------------------------------------------------------------------
(* GET and POST /reset-password?token= *)

\* reset_valid with a slip: >= for >
reset_valid_inclusive(user) ==
    /\ user # 0
    /\ users[user].reset_expires_at # NoTime
    /\ users[user].reset_expires_at >= now

\* line 2772: valid = bool(user and user.reset_expires_at and user.reset_expires_at > now)
reset_valid(user) ==
    /\ user # 0
    /\ users[user].reset_expires_at # NoTime
    /\ users[user].reset_expires_at > now

\* lines 2764-2783 and 2797-2801: everything up to the commit
reset_password(w, method, token, form) ==
    LET user == user_by_token(token)
        valid == reset_valid(user)
        password == strip(form.password)
        request == [op |-> "reset_password", method |-> method, token |-> token, form |-> form]
    IN  /\ pc[w] = "idle"
        /\ IF token = NoToken
           THEN /\ last' = Response(request, 200, "Invalid link.", <<>>)
                /\ UNCHANGED <<pc, loc>>
           ELSE IF method = "POST" /\ valid /\ password # <<>>
           THEN /\ pc' = [pc EXCEPT ![w] = "reset_commit"]
                /\ loc' = [loc EXCEPT ![w] =
                              [op |-> "reset_password", request |-> request, user |-> user,
                               password_hash |-> generate_password_hash(password)]]
                /\ UNCHANGED last
           ELSE /\ last' = Response(request, 200,
                              IF ~valid THEN "invalid or expired"
                              ELSE IF method = "POST" THEN "Password cannot be empty."
                              ELSE "form",
                              <<>>)
                /\ UNCHANGED <<pc, loc>>
        /\ UNCHANGED <<config, users, businesses, leads, session, now, issued, accepted, posted, chat_logs>>

\* reset_row with a slip: the token is left on the row
reset_row_keeps_token(user, password_hash) ==
    [users EXCEPT ![user].password_hash = password_hash]

\* reset_row with a slip: the reset also switches the account on
reset_row_activates(user, password_hash) ==
    [users EXCEPT ![user].password_hash = password_hash,
                  ![user].reset_token = NoToken,
                  ![user].reset_expires_at = NoTime,
                  ![user].is_active = TRUE]

\* lines 2783-2785: what the handler assigns to the row it loaded
reset_row(user, password_hash) ==
    [users EXCEPT ![user].password_hash = password_hash,
                  ![user].reset_token = NoToken,
                  ![user].reset_expires_at = NoTime]

\* lines 2783-2795: the UPDATE of the row loaded before, and the commit
reset_commit(w) ==
    /\ pc[w] = "reset_commit"
    /\ users' = reset_row(loc[w].user, loc[w].password_hash)
    /\ accepted' = [accepted EXCEPT ![loc[w].request.token] = @ + 1]
    /\ last' = Response(loc[w].request, 200, "updated", <<>>)
    /\ pc' = [pc EXCEPT ![w] = "idle"]
    /\ loc' = [loc EXCEPT ![w] = Idle]
    /\ UNCHANGED <<config, businesses, leads, session, now, issued, posted, chat_logs>>

\* time passes
Tick ==
    /\ now < MaxTime
    /\ now' = now + 1
    /\ UNCHANGED <<config, users, businesses, leads, session, issued, pc, loc, last, accepted, posted, chat_logs>>

-----------------------------------------------------------------------------
(* POST /chat *)

\* the fixed replies of the handler, each held as a text of one piece
MISSING_REPLY == <<"Missing business_id or message.">>
NOT_FOUND_REPLY == <<"Business not found.">>
NOT_CONFIGURED_REPLY == <<"AI is not configured yet.">>
NO_REPLY == <<"Sorry, I couldn't generate a reply.">>
WENT_WRONG_REPLY == <<"Sorry, something went wrong with the AI.">>

\* no requests.post was made for the request
NotCalled == [status |-> -1, json |-> FALSE, choices |-> "absent", content |-> <<>>]

\* requests.post raised: connection error, timeout
NetworkError == [status |-> 0, json |-> FALSE, choices |-> "absent", content |-> <<>>]

\* what the chat-completion API can answer: a status; a body that is not JSON,
\* or JSON without "choices", with an empty "choices", or with one choice whose
\* message.content is null, blank or a text
ChatBodies ==
    {[json |-> FALSE, choices |-> "absent", content |-> <<>>],
     [json |-> TRUE, choices |-> "absent", content |-> <<>>],
     [json |-> TRUE, choices |-> "empty", content |-> <<>>]}
    \cup [json : {TRUE}, choices : {"one"}, content : {None, <<" ">>, <<"y">>}]

ChatStatuses == {200, 300, 429, 500}

Upstream ==
    {NetworkError}
    \cup {[status |-> st, json |-> b.json, choices |-> b.choices, content |-> b.content] :
            st \in ChatStatuses, b \in ChatBodies}

\* requests.Response.raise_for_status raises HTTPError for 4xx and 5xx
raise_for_status(resp) == 400 <= resp.status /\ resp.status < 600

\* lines 2935-2958: an exception is raised between the post and reply_text
chat_raises(resp) ==
    \/ resp = NetworkError
    \/ raise_for_status(resp)
    \/ ~resp.json                                       \* resp.json() raises
    \/ resp.choices = "empty"                           \* [][0]: IndexError
    \/ resp.choices = "one" /\ resp.content = None      \* None.strip(): AttributeError

\* lines 2953-2960, when nothing raised
chat_reply_text(resp) ==
    LET content == IF resp.choices = "absent" THEN <<>> ELSE resp.content
        reply_text == strip(content)
    IN  IF reply_text = <<>> THEN NO_REPLY ELSE reply_text

\* chat_business with a slip: an unknown id falls back to the first Business row
chat_business_default(business_id) ==
    IF business_by_id(business_id) = 0 THEN 1 ELSE business_by_id(business_id)

\* line 2894: the Business row the chat is for, 0 for None
chat_business(business_id) == business_by_id(business_id)

\* chat_configured with a slip: the key is not looked at
chat_configured_always == TRUE

\* line 2932: the key the call needs is there
chat_configured == config.OPENAI_API_KEY # <<>>

\* log_line with a slip: the reply is left out of the line
log_line_without_reply(business_id, user_message, reply_text) ==
    [business_id |-> business_id, user |-> user_message, bot |-> <<>>]

\* lines 2962-2965
log_line(business_id, user_message, reply_text) ==
    [business_id |-> business_id, user |-> user_message, bot |-> reply_text]

chat(data, resp) ==
    LET business_id == strip(data.business_id)
        user_message == strip(data.message)
        biz == chat_business(business_id)
        called == business_id # <<>> /\ user_message # <<>> /\ biz # 0 /\ chat_configured
        request == [op |-> "chat", data |-> data, upstream |-> IF called THEN resp ELSE NotCalled]
    IN  /\ IF business_id = <<>> \/ user_message = <<>>
           THEN /\ last' = Response(request, 400, MISSING_REPLY, <<>>)
                /\ UNCHANGED <<posted, chat_logs>>
           ELSE IF biz = 0
           THEN /\ last' = Response(request, 404, NOT_FOUND_REPLY, <<>>)
                /\ UNCHANGED <<posted, chat_logs>>
           ELSE IF ~chat_configured
           THEN /\ Len(chat_logs) < MaxChats
                /\ chat_logs' = Append(chat_logs, log_line(business_id, user_message, NOT_CONFIGURED_REPLY))
                /\ last' = Response(request, 200, NOT_CONFIGURED_REPLY, <<>>)
                /\ UNCHANGED posted
           ELSE /\ posted < MaxChats
                /\ posted' = posted + 1
                /\ IF chat_raises(resp)
                   THEN /\ last' = Response(request, 500, WENT_WRONG_REPLY, <<>>)
                        /\ UNCHANGED chat_logs
                   ELSE /\ Len(chat_logs) < MaxChats
                        /\ chat_logs' = Append(chat_logs,
                                           log_line(business_id, user_message, chat_reply_text(resp)))
                        /\ last' = Response(request, 200, chat_reply_text(resp), <<>>)
        /\ UNCHANGED <<config, users, businesses, leads, session, now, issued, pc, loc, accepted>>

-----------------------------------------------------------------------------
(* POST /lead *)

\* lines 3010-3014: the first token of the contact text that holds an "@", None when there is none
RECURSIVE first_with_at(_)
first_with_at(tokens) ==
    IF tokens = <<>> THEN None
    ELSE IF \E i \in 1..Len(Head(tokens)) : Head(tokens)[i] = "@" THEN strip(Head(tokens))
    ELSE first_with_at(Tail(tokens))

contact_email(contact) == first_with_at(split(replace(contact, ",", " ")))

\* lead_missing with a slip: the name is tested where the email should be
lead_missing_tests_name(business_id, name, email) == business_id = <<>> \/ name = <<>>

\* lead_missing with a slip: the email is not tested
lead_missing_business_only(business_id, name, email) == business_id = <<>>

\* line 2982: the fields the handler requires
lead_missing(business_id, name, email) == business_id = <<>> \/ email = <<>>

\* lines 3009-3018: the emails a stored lead sets off
lead_mail(biz, o1, o2) ==
    (IF biz.contact # <<>> /\ contact_email(biz.contact) # None
     THEN <<send_email(contact_email(biz.contact), "lead", NoToken, o1)>>
     ELSE <<>>)
    \o (IF config.ADMIN_EMAIL # <<>>
        THEN <<send_email(config.ADMIN_EMAIL, "lead_copy", NoToken, o2)>>
        ELSE <<>>)

\* lead_business with a slip: an unknown id falls back to the first Business row
lead_business_default(business_id) ==
    IF business_by_id(business_id) = 0 THEN 1 ELSE business_by_id(business_id)

\* line 2987: the Business row the lead is for, 0 for None
lead_business(business_id) == business_by_id(business_id)

\* insert_lead with a slip: the row is added and never committed
insert_lead_uncommitted(lead_obj) == leads

\* lines 2991-2999: db.add(lead_obj); db.commit()
insert_lead(lead_obj) == Append(leads, lead_obj)

lead(data) ==
    LET business_id == strip(data.business_id)
        name == strip(data.name)
        email == strip(data.email)
        biz == lead_business(business_id)
        request == [op |-> "lead", data |-> data]
    IN  /\ IF lead_missing(business_id, name, email)
           THEN /\ last' = Response(request, 400, "Missing business_id or email.", <<>>)
                /\ UNCHANGED leads
           ELSE IF biz = 0
           THEN /\ last' = Response(request, 404, "Business not found.", <<>>)
                /\ UNCHANGED leads
           ELSE /\ Len(leads) < MaxLeads
                /\ leads' = insert_lead([business_id |-> business_id, name |-> name, email |-> email])
                /\ \E o1, o2 \in send_outcomes :
                     last' = Response(request, 200, "ok", lead_mail(businesses[biz], o1, o2))
        /\ UNCHANGED <<config, users, businesses, session, now, issued, pc, loc, accepted, posted, chat_logs>>

-----------------------------------------------------------------------------------------------------------------------------------------------------------------------------------------------------------------------------
(* The requests the model sends *)

Tokens == 0..MaxTokens

AuthSignupForms ==
    [owner_name : {<<"o">>},
     email : {<<"a", "@">>, <<" ", "A", "@">>},
     password : {<<>>, <<"p">>, <<"p", " ">>},
     business_name : {<<"T">>},
     phone : {<<>>}]

LoginForms ==
    [email : {<<"a", "@">>, <<"r", "@">>},
     password : {<<"p">>, <<"p", " ">>, <<"q">>}]

ForgotForms == [email : {<<"A", "@", " ">>, <<"z", "@">>}]

\* a GET carries no form
ResetRequests ==
    [method : {"POST"}, token : Tokens, form : [password : {<<>>, <<" ", "q">>}]]
    \cup [method : {"GET"}, token : Tokens, form : [password : {<<>>}]]

LeadSignupForms ==
    [owner_name : {<<"o">>},
     email : {<<"a", "@">>},
     password : {<<"p">>},
     business_name : {<<"T">>},
     phone : {<<>>, <<"5">>, <<"5", ",", "c", "@">>}]

LeadData ==
    [business_id : {<<>>, <<" ">> \o DEMO, <<"t">>, <<"n", "o">>},
     name : {<<>>, <<"n">>},
     email : {<<>>, <<" ">>, <<"v", "@">>}]

SignupSteps(threads, forms) ==
    \/ \E w \in threads, form \in forms : signup(w, form)
    \/ \E w \in threads : slugify_business_id(w)
    \/ \E w \in threads : signup_add_business(w)
    \/ \E w \in threads : signup_add_user(w)

\* owner and admin use the same browser
SharedBrowser == {1}

\* accounts: sign up (one at a time), log in, approval, password reset (on every thread)
NextAuth ==
    \/ SignupSteps({1}, AuthSignupForms)
    \/ \E c \in SharedBrowser, form \in LoginForms : login(c, form)
    \/ \E c \in SharedBrowser, user_id \in 1..(Len(users) + 1) : admin_approve(c, user_id)
    \/ \E c \in SharedBrowser, user_id \in 1..(Len(users) + 1) : admin_deactivate(c, user_id)
    \/ \E form \in ForgotForms : forgot_password(form)
    \/ \E w \in Threads, r \in ResetRequests : reset_password(w, r.method, r.token, r.form)
    \/ \E w \in Threads : reset_commit(w)
    \/ Tick

SpecAuth == InitWith(AuthConfigs) /\ [][NextAuth]_vars

StartSignupForms ==
    [owner_name : {<<"o">>},
     email : {<<"a", "@">>, <<"r", "@">>},
     password : {<<"p">>},
     business_name : {<<"T">>, <<"é", "!">>, <<"!">>},
     phone : {<<>>}]

\* first start on an empty database, restarts, and signups on every process
NextStart ==
    \/ \E w \in Threads : init_db(w)
    \/ \E w \in Threads : init_db_add_admin(w)
    \/ \E w \in Threads : init_db_demo(w)
    \/ \E w \in Threads : init_db_add_demo(w)
    \/ \E w \in Threads : restart(w)
    \/ SignupSteps(Threads, StartSignupForms)

SpecStart == InitEmpty(StartConfigs) /\ [][NextStart]_vars

SessionSignupForms ==
    [owner_name : {<<"o">>},
     email : {<<"a", "@">>},
     password : {<<"p">>},
     business_name : {<<"T">>},
     phone : {<<>>}]

SessionLoginForms ==
    {[email |-> <<"a", "@">>, password |-> <<"p">>],
     [email |-> <<"r", "@">>, password |-> <<"q">>]}

\* an owner and an admin, each in a browser of their own
NextSession ==
    \/ SignupSteps({1}, SessionSignupForms)
    \/ \E c \in Browsers, form \in SessionLoginForms : login(c, form)
    \/ \E c \in Browsers : logout(c)
    \/ \E c \in Browsers : dashboard(c)
    \/ \E c \in Browsers : admin_businesses(c)
    \/ \E c \in Browsers, user_id \in 1..(Len(users) + 1) : admin_approve(c, user_id)
    \/ \E c \in Browsers, user_id \in 1..(Len(users) + 1) : admin_deactivate(c, user_id)

SpecSession == InitWith(AuthConfigs) /\ [][NextSession]_vars

DashboardConfigs ==
    [ADMIN_EMAIL : {<<"r", "@">>}, RESEND_API_KEY : ResendKeys, EMAIL_FROM_ADDRESS : {<<"f", "@">>}]

DashboardLeadData ==
    [business_id : {DEMO, <<"t">>}, name : {<<"n">>}, email : {<<"v", "@">>}]

\* two tenants collect leads; an owner and an admin, each in a browser of their own
NextDashboard ==
    \/ SignupSteps({1}, SessionSignupForms)
    \/ \E c \in Browsers, form \in SessionLoginForms : login(c, form)
    \/ \E c \in Browsers : dashboard(c)
    \/ \E c \in Browsers, user_id \in 1..(Len(users) + 1) : admin_approve(c, user_id)
    \/ \E c \in Browsers, user_id \in 1..(Len(users) + 1) : admin_deactivate(c, user_id)
    \/ \E data \in DashboardLeadData : lead(data)

SpecDashboard == InitWith(DashboardConfigs) /\ [][NextDashboard]_vars

RECURSIVE repeat(_, _)
repeat(c, n) == IF n = 0 THEN <<>> ELSE <<c>> \o repeat(c, n - 1)

NameChars == {"a", "B", "1", " ", "-", "!", "é"}

\* every name of at most MaxNameLen characters, and names longer than the slug may be
BusinessNames ==
    UNION {[1..n -> NameChars] : n \in 0..MaxNameLen}
    \cup {repeat("a", SlugMax - 1) \o tail : tail \in {<<"!", "b">>, <<"b", "c">>, <<"!", "!">>}}
    \cup {repeat("!", SlugMax + 1)}

SlugSignupForms ==
    [owner_name : {<<"o">>},
     email : {<<"a", "@">>},
     password : {<<"p">>},
     business_name : BusinessNames,
     phone : {<<>>}]

\* the first signup after init_db, under every business name
NextSlug ==
    \/ \E form \in SlugSignupForms : Len(businesses) = 1 /\ signup(1, form)
    \/ slugify_business_id(1)
    \/ signup_add_business(1)
    \/ signup_add_user(1)

SpecSlug == InitWith(AuthConfigs) /\ [][NextSlug]_vars

\* passwords that differ after trimming, so that a stored hash tells which one was typed
RoundTripSignupForms ==
    [owner_name : {<<"o">>},
     email : {<<"a", "@">>},
     password : {<<"p", " ">>, <<"s">>, <<" ">>},
     business_name : {<<"T">>},
     phone : {<<>>}]

RoundTripResetRequests ==
    [method : {"POST"}, token : Tokens, form : [password : {<<" ", "q">>, <<"u">>}]]

RoundTripLoginForms ==
    [email : {<<"a", "@">>}, password : {<<"p", " ">>, <<"p">>, <<"s">>, <<" ", "q">>, <<"u">>}]
    \cup {[email |-> <<"r", "@">>, password |-> <<"q">>]}

\* sign up, be approved, reset the password, log in
NextRoundTrip ==
    \/ SignupSteps({1}, RoundTripSignupForms)
    \/ \E c \in SharedBrowser, form \in RoundTripLoginForms : login(c, form)
    \/ \E c \in SharedBrowser, user_id \in 1..(Len(users) + 1) : admin_approve(c, user_id)
    \/ \E form \in ForgotForms : forgot_password(form)
    \/ \E r \in RoundTripResetRequests : reset_password(1, r.method, r.token, r.form)
    \/ reset_commit(1)

SpecRoundTrip == InitWith(AuthConfigs) /\ [][NextRoundTrip]_vars

ChatData ==
    [business_id : {<<>>, <<" ">> \o DEMO, <<"n", "o">>},
     message : {<<" ">>, <<"h", "i", " ">>}]

\* the chat widget of the demo business, with and without an API key
NextChat ==
    \E data \in ChatData, resp \in Upstream : chat(data, resp)

SpecChat == InitWith(ChatConfigs) /\ [][NextChat]_vars

\* lead capture for the demo business and for a business that signed up
NextLead ==
    \/ SignupSteps({1}, LeadSignupForms)
    \/ \E data \in LeadData : lead(data)

SpecLead == InitWith(LeadConfigs) /\ [][NextLead]_vars

-----------------------------------------------------------------------------
(* C1. Sign up, then log in before approval *)

\* C1: when a POST /signup has just created a business user and the next
\* request is a POST /login carrying the same email and the same password, the
\* login answers "pending approval" and puts no user_id into the session.
C1_SignupThenLoginIsPending ==
    [][\A c \in Browsers, form \in LoginForms :
          ( /\ last.request.op = "signup"
            /\ last.message = "created"
            /\ form.email = last.request.form.email
            /\ form.password = last.request.form.password
            /\ login(c, form) )
          => ( /\ last'.message = "pending"
               /\ session' = session
               /\ \A b \in Browsers : session'[b] # Len(users) )]_vars

-----------------------------------------------------------------------------
(* C2. Approval, then log in *)

\* the Business rows a user row is linked to
linked_businesses(u) ==
    {i \in 1..Len(businesses) : businesses[i].business_id = users[u].business_id}

\* C2: an admin's /admin/approve/<user_id> makes a pending owner active; the
\* owner stays active until an admin deactivates that user; a POST /login of
\* an active owner with the email and a password the stored hash verifies
\* succeeds and sets the session to that user; and the user row is linked to
\* exactly one Business row, the one the owner's signup inserted (rows keep
\* their business_id).
C2_ApprovedOwnerLogsIn ==
    [][ /\ \A c \in Browsers, u \in UserIds :
             ( /\ last'.request = [op |-> "admin_approve", browser |-> c, user_id |-> u]
               /\ admin_required(c)
               /\ users[u].role = "business"
               /\ ~users[u].is_active
               /\ admin_approve(c, u) )
             => users' = [users EXCEPT ![u].is_active = TRUE]
        /\ \A u \in UserIds :
             (users[u].is_active /\ ~users'[u].is_active)
             => \E c \in Browsers : admin_required(c) /\ admin_deactivate(c, u)
        /\ \A c \in Browsers, form \in LoginForms :
             LET u == user_by_email(lower(strip(form.email)))
             IN  ( /\ last'.request = [op |-> "login", browser |-> c, form |-> form]
                   /\ u # 0
                   /\ users[u].role = "business"
                   /\ users[u].is_active
                   /\ check_password_hash(users[u].password_hash, form.password)
                   /\ login(c, form) )
                 => ( /\ session'[c] = u
                      /\ last'.status = 302
                      /\ last'.message = "dashboard"
                      /\ Cardinality(linked_businesses(u)) = 1 )
        /\ \A w \in Threads :
             (signup_add_user(w) /\ Len(users') = Len(users) + 1)
             => \E i \in 1..Len(businesses) :
                  /\ businesses[i].business_id = users'[Len(users')].business_id
                  /\ businesses[i].name = strip(loc[w].request.form.business_name)
        /\ \A u \in UserIds : users'[u].business_id = users[u].business_id
        /\ \A i \in 1..Len(businesses) : businesses'[i] = businesses[i]
      ]_vars

\* an owner is logged in: the login after the approval happened
C2_Witness ==
    /\ last.request.op = "login"
    /\ last.status = 302
    /\ last.message = "dashboard"
    /\ session[last.request.browser] \in UserIds
    /\ users[session[last.request.browser]].role = "business"
    /\ users[session[last.request.browser]].is_active

-----------------------------------------------------------------------------
(* C3. A consumed reset token *)

\* C3: once a POST /reset-password has changed a password with a token, every
\* request (GET or POST) that arrives later with that token is answered
\* "invalid" and changes nothing in users, whatever the time.
C3_ConsumedTokenIsRefused ==
    [][\A w \in Threads, r \in ResetRequests :
          ( /\ pc[w] = "idle"
            /\ \/ pc'[w] = "reset_commit"
               \/ last'.request = [op |-> "reset_password", method |-> r.method,
                                   token |-> r.token, form |-> r.form]
            /\ r.token # NoToken
            /\ accepted[r.token] > 0
            /\ reset_password(w, r.method, r.token, r.form) )
          => ( /\ last'.request = [op |-> "reset_password", method |-> r.method,
                                   token |-> r.token, form |-> r.form]
               /\ last'.message = "invalid or expired"
               /\ pc'[w] = "idle"
               /\ users' = users )]_vars

\* a POST replaying a consumed token was refused within the hour of its issue
C3_Witness ==
    /\ last.request.op = "reset_password"
    /\ last.request.method = "POST"
    /\ last.request.form.password # <<>>
    /\ last.request.token # NoToken
    /\ accepted[last.request.token] > 0
    /\ last.message = "invalid or expired"
    /\ now = 0

-----------------------------------------------------------------------------
(* C4. A token that is absent, unknown or expired *)

\* C4: a POST /reset-password whose token is absent, is the reset_token of no
\* user, or belongs to a user whose reset_expires_at is not later than the
\* current time, ends without changing users (no password_hash changes) and
\* without going on to the commit.
C4_BadTokenChangesNothing ==
    [][\A w \in Threads, r \in ResetRequests :
          ( /\ pc[w] = "idle"
            /\ \/ pc'[w] = "reset_commit"
               \/ last'.request = [op |-> "reset_password", method |-> r.method,
                                   token |-> r.token, form |-> r.form]
            /\ r.method = "POST"
            /\ \/ r.token = NoToken
               \/ \A u \in UserIds : users[u].reset_token # r.token
               \/ \E u \in UserIds : /\ users[u].reset_token = r.token
                                     /\ users[u].reset_expires_at <= now
            /\ reset_password(w, r.method, r.token, r.form) )
          => ( /\ users' = users
               /\ pc'[w] = "idle"
               /\ last'.message \in {"Invalid link.", "invalid or expired"} )]_vars

\* a POST with a new password was refused at the very hour its token expired
C4_Witness ==
    /\ last.request.op = "reset_password"
    /\ last.request.method = "POST"
    /\ last.request.form.password # <<>>
    /\ last.message = "invalid or expired"
    /\ \E u \in UserIds : /\ users[u].reset_token = last.request.token
                          /\ users[u].reset_expires_at = now

-----------------------------------------------------------------------------
(* C5. Two concurrent POSTs with one token *)

\* C5: no reset token is accepted, that is changes a password, more than once,
\* also when two POST /reset-password carrying it are handled at the same time.
C5_TokenAcceptedAtMostOnce ==
    \A t \in DOMAIN accepted : accepted[t] <= 1

-----------------------------------------------------------------------------
(* C6. A lead without name or email *)

\* C6 as the specification states it: a POST /lead whose name or email is
\* missing or blank is answered with a validation error and stores no Lead row.
C6_NameOrEmailRequired ==
    [][\A data \in LeadData :
          ( /\ last'.request = [op |-> "lead", data |-> data]
            /\ strip(data.name) = <<>> \/ strip(data.email) = <<>>
            /\ lead(data) )
          => (last'.status = 400 /\ leads' = leads)]_vars

\* C6 as the handler has it: a POST /lead whose email is missing or blank after
\* trimming is answered 400 and stores no Lead row (the name is not required).
C6_EmailRequired ==
    [][\A data \in LeadData :
          ( /\ last'.request = [op |-> "lead", data |-> data]
            /\ strip(data.email) = <<>>
            /\ lead(data) )
          => (last'.status = 400 /\ leads' = leads)]_vars

\* a lead with neither name nor email was refused
C6_Witness ==
    /\ last.request.op = "lead"
    /\ strip(last.request.data.business_id) # <<>>
    /\ strip(last.request.data.name) = <<>>
    /\ strip(last.request.data.email) = <<>>
    /\ last.status = 400

-----------------------------------------------------------------------------
(* C7. A lead for a known business, with a name, without email *)

\* C7: a POST /lead that names an existing business and a name and has no or a
\* blank email is answered 400, and the leads table is what it was.
C7_LeadWithoutEmail ==
    [][\A data \in LeadData :
          ( /\ last'.request = [op |-> "lead", data |-> data]
            /\ \E i \in 1..Len(businesses) : businesses[i].business_id = strip(data.business_id)
            /\ strip(data.name) # <<>>
            /\ strip(data.email) = <<>>
            /\ lead(data) )
          => (last'.status = 400 /\ leads' = leads)]_vars

\* the scenario {"business_id": "demo", "name": "n"} was answered 400 after a lead had been stored
C7_Witness ==
    /\ last.request.op = "lead"
    /\ strip(last.request.data.business_id) = DEMO
    /\ strip(last.request.data.name) # <<>>
    /\ last.request.data.email = <<>>
    /\ last.status = 400
    /\ Len(leads) > 0

-----------------------------------------------------------------------------
(* C8. A valid lead is stored whatever becomes of the emails *)

\* C8: a POST /lead with a non-blank business_id and email, for an existing
\* business, adds exactly one row to leads, for that business_id, and answers
\* 200, whatever each call of send_email does.
C8_ValidLeadStoredOnce ==
    [][\A data \in LeadData :
          ( /\ last'.request = [op |-> "lead", data |-> data]
            /\ strip(data.email) # <<>>
            /\ \E i \in 1..Len(businesses) : businesses[i].business_id = strip(data.business_id)
            /\ lead(data) )
          => ( /\ Len(leads') = Len(leads) + 1
               /\ SubSeq(leads', 1, Len(leads)) = leads
               /\ leads'[Len(leads')].business_id = strip(data.business_id)
               /\ leads'[Len(leads')].email = strip(data.email)
               /\ last'.status = 200 )]_vars

\* a lead was stored although one email raised and the other was answered >= 300
C8_Witness ==
    /\ last.request.op = "lead"
    /\ last.status = 200
    /\ Len(leads) > 0
    /\ leads[Len(leads)].business_id = strip(last.request.data.business_id)
    /\ Len(last.mail) = 2
    /\ last.mail[1].outcome = "exception"
    /\ last.mail[2].outcome = "status_error"

-----------------------------------------------------------------------------
(* C9. A lead for an unknown business *)

\* C9: a POST /lead whose business_id (with an email) is the business_id of no
\* Business row is answered 404 and stores nothing; and every row added to
\* leads carries the business_id of a Business row present at that moment.
C9_UnknownBusinessRefused ==
    [][ /\ \A data \in LeadData :
             ( /\ last'.request = [op |-> "lead", data |-> data]
               /\ strip(data.business_id) # <<>>
               /\ strip(data.email) # <<>>
               /\ \A i \in 1..Len(businesses) : businesses[i].business_id # strip(data.business_id)
               /\ lead(data) )
             => (last'.status = 404 /\ leads' = leads)
        /\ \A k \in (Len(leads) + 1)..Len(leads') :
             \E i \in 1..Len(businesses) : businesses[i].business_id = leads'[k].business_id
      ]_vars

\* a lead for an unknown business was answered 404 while leads held rows
C9_Witness ==
    /\ last.request.op = "lead"
    /\ last.status = 404
    /\ \A i \in 1..Len(businesses) :
         businesses[i].business_id # strip(last.request.data.business_id)
    /\ Len(leads) > 0

-----------------------------------------------------------------------------
(* C10. Who is told about a lead *)

-----------------------------------------------------------------------------
(* C11. Chat with an unknown tenant *)

\* C11: a POST /chat with a non-blank message and a (non-blank) business_id
\* that is the business_id of no Business row is answered 404 "Business not
\* found.", makes no call to the chat-completion API and writes no log line,
\* with and without an API key.
C11_UnknownTenantNoCall ==
    [][\A data \in ChatData, resp \in Upstream :
          ( /\ last'.request.op = "chat"
            /\ last'.request.data = data
            /\ strip(data.message) # <<>>
            /\ strip(data.business_id) # <<>>
            /\ \A i \in 1..Len(businesses) : businesses[i].business_id # strip(data.business_id)
            /\ chat(data, resp) )
          => ( /\ last'.status = 404
               /\ last'.message = NOT_FOUND_REPLY
               /\ last'.request.upstream = NotCalled
               /\ posted' = posted
               /\ chat_logs' = chat_logs )]_vars

\* the scenario was answered "Business not found." on a server that has an API
\* key and has called the API before
C11_Witness ==
    /\ last.request.op = "chat"
    /\ strip(last.request.data.business_id) = <<"n", "o">>
    /\ last.message = NOT_FOUND_REPLY
    /\ config.OPENAI_API_KEY # <<>>
    /\ posted > 0

-----------------------------------------------------------------------------
(* C12. Chat without an API key *)

\* C12: when OPENAI_API_KEY is empty, a POST /chat with a non-blank message for
\* an existing business is answered "AI is not configured yet." and no
\* request is posted to the chat-completion API, by this or any other step.
C12_NotConfiguredNoCall ==
    [][ /\ \A data \in ChatData, resp \in Upstream :
             ( /\ last'.request.op = "chat"
               /\ last'.request.data = data
               /\ config.OPENAI_API_KEY = <<>>
               /\ strip(data.message) # <<>>
               /\ \E i \in 1..Len(businesses) : businesses[i].business_id = strip(data.business_id)
               /\ chat(data, resp) )
             => ( /\ last'.message = NOT_CONFIGURED_REPLY
                  /\ last'.request.upstream = NotCalled )
        /\ config.OPENAI_API_KEY = <<>> => posted' = 0
      ]_vars

\* a chat for the demo business was answered "not configured"
C12_Witness ==
    /\ last.request.op = "chat"
    /\ strip(last.request.data.business_id) = DEMO
    /\ config.OPENAI_API_KEY = <<>>
    /\ last.message = NOT_CONFIGURED_REPLY
    /\ posted = 0

-----------------------------------------------------------------------------
(* C13. Chat when the chat-completion API fails *)

\* the text the API returned is empty: no choices, or a blank content
empty_returned_text(resp) ==
    /\ resp.json
    /\ \/ resp.choices = "absent"
       \/ resp.choices = "one" /\ resp.content # None /\ strip(resp.content) = <<>>

\* C13: for a POST /chat that posts to the chat-completion API, when the post
\* raises a network error, or the response is not 2xx, or the returned text is
\* empty, the reply is one of the two fixed apologies (never what the API or
\* the exception said), and the handler answers.
C13_UpstreamFailureApology ==
    [][\A data \in ChatData, resp \in Upstream :
          ( /\ last'.request = [op |-> "chat", data |-> data, upstream |-> resp]
            /\ \/ resp = NetworkError
               \/ resp.status < 200
               \/ resp.status > 299
               \/ empty_returned_text(resp)
            /\ chat(data, resp) )
          => ( /\ last'.message \in {NO_REPLY, WENT_WRONG_REPLY}
               /\ last'.status \in {200, 500} )]_vars

-----------------------------------------------------------------------------
(* C14. The business_id that slugify_business_id returns *)

\* the characters a URL carries unescaped (RFC 3986, unreserved)
UrlSafeChars ==
    LowerLetters \cup DOMAIN UpperToLower \cup {DigitChars[d] : d \in 1..Len(DigitChars)}
    \cup {"-", ".", "_", "~"}

\* C14: when slugify_business_id returns, for a business name signup has
\* accepted, the business_id it returns is not empty, holds URL-safe characters
\* only, and is the business_id of no Business row present at that moment.
C14_SlugUrlSafeNonEmptyUnique ==
    [][\A w \in Threads :
          ( /\ pc[w] = "slugify"
            /\ pc'[w] = "add_business"
            /\ slugify_business_id(w) )
          => ( /\ loc'[w].biz_id # <<>>
               /\ \A k \in 1..Len(loc'[w].biz_id) : loc'[w].biz_id[k] \in UrlSafeChars
               /\ \A i \in 1..Len(businesses) : businesses[i].business_id # loc'[w].biz_id )]_vars

-----------------------------------------------------------------------------
(* C15. business_id is unique and never changes *)

\* C15: whatever the interleaving of init_db and of signups on several
\* processes, no two Business rows have the same business_id, and a row, once
\* inserted, stays and keeps its business_id.
C15_BusinessIdUniqueAndFixed ==
    [][ /\ \A i, j \in 1..Len(businesses') :
             i # j => businesses'[i].business_id # businesses'[j].business_id
        /\ Len(businesses') >= Len(businesses)
        /\ \A i \in 1..Len(businesses) : businesses'[i].business_id = businesses[i].business_id
      ]_vars

\* two signups chose the same free business_id and the second INSERT was refused
C15_Witness ==
    /\ last.request.op = "signup"
    /\ last.message = "IntegrityError businesses.business_id"
    /\ Len(businesses) >= 2

-----------------------------------------------------------------------------
(* C16. User emails are unique and lower-cased *)

\* C16: in every state, every User row's email is in lower case and no two
\* User rows have the same email, the admin row of init_db included.
C16_EmailsUniqueLowerCased ==
    \A u \in UserIds :
        /\ users[u].email = lower(users[u].email)
        /\ \A v \in UserIds : u # v => users[u].email # users[v].email

-----------------------------------------------------------------------------
(* C17. Admin rows are active *)

\* C17: in every state, every User row with role "admin" has is_active true,
\* whatever /admin/approve and /admin/deactivate requests were made.
C17_AdminRowsActive ==
    \A u \in UserIds : users[u].role = "admin" => users[u].is_active

-----------------------------------------------------------------------------
(* C18. A session outlives nothing but the user id *)

\* C18: the session holds a user id and nothing else, an admin's deactivate
\* leaves every session as it is, and a GET /dashboard from a browser whose
\* session holds the id of a business user that is now inactive is answered
\* 403, with no page, and leaves the session as it is.
C18_DeactivatedOwnerRefused ==
    [][ /\ \A c \in Browsers : session'[c] \in 0..Len(users')
        /\ \A c \in Browsers, u \in UserIds : admin_deactivate(c, u) => session' = session
        /\ \A c \in Browsers :
             ( /\ last'.request = [op |-> "dashboard", browser |-> c]
               /\ session[c] \in UserIds
               /\ users[session[c]].role = "business"
               /\ ~users[session[c]].is_active
               /\ dashboard(c) )
             => ( /\ last' = Response([op |-> "dashboard", browser |-> c], 403,
                                      "Your account is pending approval.", <<>>)
                  /\ session' = session )
      ]_vars

\* an owner who logged in when active, and was deactivated since, asked for the
\* dashboard and was answered 403, still holding the session
C18_Witness ==
    /\ last.request.op = "dashboard"
    /\ last.status = 403
    /\ session[last.request.browser] \in UserIds
    /\ users[session[last.request.browser]].role = "business"
    /\ ~users[session[last.request.browser]].is_active

-----------------------------------------------------------------------------
(* C19. The admin routes *)

\* the session of browser c holds no user, or a user whose row is not an admin's
not_admin(c) ==
    \/ session[c] \notin UserIds
    \/ users[session[c]].role # "admin"

\* C19: /admin/businesses, /admin/approve/<id> and /admin/deactivate/<id> asked
\* from a browser whose session's user row is not an admin's (or that has no
\* session) answer with the redirect to login and nothing else: no page, no
\* email, users unchanged; and is_active of a row changes only in an approve
\* or deactivate asked from a browser whose session's user row is an admin's.
C19_AdminRoutesGated ==
    [][ /\ \A c \in Browsers :
             ( /\ last'.request.op \in {"admin_businesses", "admin_approve", "admin_deactivate"}
               /\ last'.request.browser = c
               /\ not_admin(c)
               /\ \/ admin_businesses(c)
                  \/ \E u \in 1..(Len(users) + 1) : admin_approve(c, u) \/ admin_deactivate(c, u) )
             => ( /\ last' = Response(last'.request, 302, "login", <<>>)
                  /\ users' = users )
        /\ \A u \in UserIds :
             users'[u].is_active # users[u].is_active
             => \E c \in Browsers :
                  /\ ~not_admin(c)
                  /\ last'.request.op \in {"admin_approve", "admin_deactivate"}
                  /\ last'.request.browser = c
                  /\ last'.request.user_id = u
      ]_vars

\* a logged-in, active owner asked /admin/deactivate for the admin's row and
\* was sent to login
C19_Witness ==
    /\ last.request.op = "admin_deactivate"
    /\ session[last.request.browser] \in UserIds
    /\ users[session[last.request.browser]].role = "business"
    /\ users[session[last.request.browser]].is_active
    /\ last.request.user_id \in UserIds
    /\ users[last.request.user_id].role = "admin"
    /\ users[last.request.user_id].is_active
    /\ last.status = 302
    /\ last.message = "login"

-----------------------------------------------------------------------------
(* C20. Login with a wrong password *)

\* C20: a POST /login whose password the stored hash does not verify, or whose
\* email has no User row, is answered with one and the same response, "Invalid
\* email or password." with status 200, and leaves the session unchanged,
\* whether the email has no row, a pending row or an active row.
C20_WrongPasswordSameAnswer ==
    [][\A c \in Browsers, form \in LoginForms :
          LET u == user_by_email(lower(strip(form.email)))
          IN  ( /\ last'.request = [op |-> "login", browser |-> c, form |-> form]
                /\ \/ u = 0
                   \/ ~check_password_hash(users[u].password_hash, form.password)
                /\ login(c, form) )
              => ( /\ last' = Response([op |-> "login", browser |-> c, form |-> form],
                                       200, "invalid", <<>>)
                   /\ session' = session )]_vars

\* a wrong password for the email of a pending owner was answered "invalid"
C20_Witness ==
    /\ last.request.op = "login"
    /\ last.message = "invalid"
    /\ \E u \in UserIds :
         /\ users[u].email = lower(strip(last.request.form.email))
         /\ users[u].role = "business"
         /\ ~users[u].is_active
         /\ ~check_password_hash(users[u].password_hash, last.request.form.password)

-----------------------------------------------------------------------------
(* C21. What POST /forgot-password answers *)

\* C21: every POST /forgot-password is answered with the same message and
\* status, for an email with a User row and for one without; when there is no
\* row, no token is drawn, users is unchanged and no email is handed over; when
\* there is one, the new token is stored on that row alone and one email
\* carrying that token goes to that row's address.
C21_ForgotAnswersTheSame ==
    [][\A form \in ForgotForms :
          LET u == user_by_email(lower(strip(form.email)))
          IN  ( /\ last'.request = [op |-> "forgot_password", form |-> form]
                /\ forgot_password(form) )
              => ( /\ last'.status = 200
                   /\ last'.message = "generic"
                   /\ u = 0 => ( /\ users' = users
                                 /\ issued' = issued
                                 /\ last'.mail = <<>> )
                   /\ u # 0 => ( /\ users'[u].reset_token = issued'
                                 /\ issued' = issued + 1
                                 /\ \A v \in UserIds \ {u} : users'[v] = users[v]
                                 /\ Len(last'.mail) = 1
                                 /\ last'.mail[1].to = users[u].email
                                 /\ last'.mail[1].text_body = users'[u].reset_token ) )]_vars

\* an email without a row was answered like the one with a row before it, which holds a token
C21_Witness ==
    /\ last.request.op = "forgot_password"
    /\ user_by_email(lower(strip(last.request.form.email))) = 0
    /\ last.message = "generic"
    /\ last.mail = <<>>
    /\ \E u \in UserIds : users[u].reset_token # NoToken

-----------------------------------------------------------------------------
(* C22. Whose leads the dashboard shows *)

\* C22: a GET /dashboard renders a page only when the session's user row has
\* role "business" and is active; every Lead on the page has that user's
\* business_id, and the page holds the Business row of that business_id.
\* Otherwise the answer is a redirect or a 403 and carries no rows.
C22_DashboardOwnLeadsOnly ==
    [][\A c \in Browsers :
          ( /\ last'.request = [op |-> "dashboard", browser |-> c]
            /\ dashboard(c) )
          => IF /\ session[c] \in UserIds
                /\ users[session[c]].role = "business"
                /\ users[session[c]].is_active
             THEN /\ last'.status = 200
                  /\ \A k \in 1..Len(last'.shown.leads) :
                       /\ last'.shown.leads[k].business_id = users[session[c]].business_id
                       /\ \E j \in 1..Len(leads) : leads[j] = last'.shown.leads[k]
                  /\ \A k \in 1..Len(last'.shown.biz) :
                       last'.shown.biz[k].business_id = users[session[c]].business_id
             ELSE /\ last'.status \in {302, 403}
                  /\ last' = Response(last'.request, last'.status, last'.message, <<>>)]_vars

\* an owner's dashboard showed a lead while the table also held a lead of the demo business
C22_Witness ==
    /\ last.request.op = "dashboard"
    /\ last.status = 200
    /\ Len(last.shown.leads) > 0
    /\ \E j \in 1..Len(leads) : leads[j].business_id = DEMO

-----------------------------------------------------------------------------
(* C23. The emails of approve and deactivate *)

\* C23: an admin's /admin/approve/<id> for a pending business owner makes the
\* owner active and hands exactly one email to send_email, addressed to that
\* owner; an admin's /admin/deactivate/<id> for an active business owner makes
\* the owner pending and hands over no email.
C23_ApproveMailsDeactivateDoesNot ==
    [][\A c \in Browsers, u \in UserIds :
          /\ ( /\ last'.request = [op |-> "admin_approve", browser |-> c, user_id |-> u]
               /\ ~not_admin(c)
               /\ users[u].role = "business"
               /\ ~users[u].is_active
               /\ admin_approve(c, u) )
             => ( /\ users'[u].is_active
                  /\ Len(last'.mail) = 1
                  /\ last'.mail[1].to = users[u].email
                  /\ last'.mail[1].subject = "approved" )
          /\ ( /\ last'.request = [op |-> "admin_deactivate", browser |-> c, user_id |-> u]
               /\ ~not_admin(c)
               /\ users[u].role = "business"
               /\ users[u].is_active
               /\ admin_deactivate(c, u) )
             => ( /\ ~users'[u].is_active
                  /\ last'.mail = <<>> )]_vars

\* an owner was approved, and the provider answered the one email with an error
C23_Witness ==
    /\ last.request.op = "admin_approve"
    /\ last.request.user_id \in UserIds
    /\ users[last.request.user_id].role = "business"
    /\ users[last.request.user_id].is_active
    /\ Len(last.mail) = 1
    /\ last.mail[1].outcome = "status_error"

-----------------------------------------------------------------------------
(* C24. The base slug *)

\* the reference, one character at a time: alphanumeric characters are kept, a
\* run of others between two of them becomes one "-"
RECURSIVE slug_reference_scan(_, _, _)
slug_reference_scan(s, out, gap) ==
    IF s = <<>> THEN out
    ELSE IF isalnum(Head(s))
    THEN slug_reference_scan(Tail(s),
                             out \o (IF gap /\ out # <<>> THEN <<"-">> ELSE <<>>) \o <<Head(s)>>,
                             FALSE)
    ELSE slug_reference_scan(Tail(s), out, TRUE)

\* the reference: the scan of the lower-cased trimmed name, "biz" when that is
\* empty, cut to SlugMax characters
slug_reference(name) ==
    LET full == slug_reference_scan(lower(strip(name)), <<>>, FALSE)
        named == IF full = <<>> THEN BIZ ELSE full
    IN  SubSeq(named, 1, Min(Len(named), SlugMax))

\* C24 as the specification states it: for every name signup passes to
\* slugify_business_id, the base slug is the reference, is at most 32
\* characters long and has no leading and no trailing "-".
C24_BaseSlugNoTrailingDash ==
    [][( /\ pc[1] = "idle"
         /\ pc'[1] = "slugify"
         /\ loc'[1].request.form \in SlugSignupForms
         /\ signup(1, loc'[1].request.form) )
          => ( /\ loc'[1].base = slug_reference(loc'[1].request.form.business_name)
               /\ Len(loc'[1].base) <= SlugMax
               /\ loc'[1].base # <<>>
               /\ loc'[1].base[1] # "-"
               /\ loc'[1].base[Len(loc'[1].base)] # "-" )]_vars

\* C24 as the code has it: for every name signup passes to
\* slugify_business_id, the base slug is the reference, is not empty, is at
\* most 32 characters long and has no leading "-"; it has no trailing "-"
\* unless the cut to 32 characters left one.
C24_BaseSlugIsReference ==
    [][( /\ pc[1] = "idle"
         /\ pc'[1] = "slugify"
         /\ loc'[1].request.form \in SlugSignupForms
         /\ signup(1, loc'[1].request.form) )
          => ( /\ loc'[1].base = slug_reference(loc'[1].request.form.business_name)
               /\ Len(loc'[1].base) <= SlugMax
               /\ loc'[1].base # <<>>
               /\ loc'[1].base[1] # "-"
               /\ loc'[1].base[Len(loc'[1].base)] = "-" => Len(loc'[1].base) = SlugMax )]_vars

\* a name of runs of other characters around two alphanumeric ones got a base
\* slug with a single "-"
C24_Witness ==
    /\ pc[1] = "slugify"
    /\ loc[1].business_name = <<"B", " ", "é">>
    /\ loc[1].base = <<"b", "-", "é">>

-----------------------------------------------------------------------------
(* C25. Two signups race for one business_id *)

\* C25: when a signup comes to insert its Business row and a row with the
\* business_id it chose has been inserted since it chose (by another signup
\* that found the same candidate free), the insert is refused with a
\* unique-constraint violation: the request ends with status 500, and neither
\* a Business row nor a User row is added.
C25_SecondInsertRefused ==
    [][\A w \in Threads :
          ( /\ pc[w] = "add_business"
            /\ \E i \in 1..Len(businesses) : businesses[i].business_id = loc[w].biz_id
            /\ signup_add_business(w) )
          => ( /\ businesses' = businesses
               /\ users' = users
               /\ pc'[w] = "idle"
               /\ last'.request = loc[w].request
               /\ last'.status = 500
               /\ last'.message = "IntegrityError businesses.business_id" )]_vars

\* two signups with different emails and the same business name: one has
\* inserted its Business row and not yet its User row, the other was refused
C25_Witness ==
    /\ last.request.op = "signup"
    /\ last.message = "IntegrityError businesses.business_id"
    /\ \E v \in Threads :
         /\ pc[v] = "add_user"
         /\ loc[v].email # lower(strip(last.request.form.email))
         /\ loc[v].business_name = strip(last.request.form.business_name)
         /\ \E i \in 1..Len(businesses) : businesses[i].business_id = loc[v].biz_id

-----------------------------------------------------------------------------
(* C26. The chat audit log *)

\* C26: a POST /chat that called the chat-completion API and answers 200
\* appends exactly one line to the log, holding the trimmed business id, the
\* trimmed visitor message and the reply returned; a POST /chat answered 400
\* (validation), 404 (unknown tenant) or 500 (the generic error reply) leaves
\* the log as it is.
C26_OneLogLinePerReply ==
    [][\A data \in ChatData, resp \in Upstream :
          ( /\ last'.request.op = "chat"
            /\ last'.request.data = data
            /\ chat(data, resp) )
          => ( /\ (last'.status = 200 /\ last'.request.upstream # NotCalled)
                  => chat_logs' = Append(chat_logs,
                                         [business_id |-> strip(data.business_id),
                                          user |-> strip(data.message),
                                          bot |-> last'.message])
               /\ last'.status \in {400, 404, 500} => chat_logs' = chat_logs
               /\ last'.message \in {MISSING_REPLY, NOT_FOUND_REPLY, WENT_WRONG_REPLY}
                  => chat_logs' = chat_logs )]_vars

\* the API answered 200 with a text, and the second line of the log holds it
C26_Witness ==
    /\ last.request.op = "chat"
    /\ last.status = 200
    /\ last.request.upstream.status = 200
    /\ last.message = <<"y">>
    /\ Len(chat_logs) = 2
    /\ chat_logs[2] = [business_id |-> DEMO, user |-> <<"h", "i">>, bot |-> <<"y">>]

-----------------------------------------------------------------------------
(* C27. Round trip of a password *)

\* the passwords typed into POST /signup and POST /reset-password; no two of
\* them are equal after trimming
SubmittedPasswords ==
    {form.password : form \in RoundTripSignupForms}
    \cup {r.form.password : r \in RoundTripResetRequests}

\* C27: when an active business user's password was set by a POST /signup or a
\* POST /reset-password in which p was typed (the stored hash is the one that
\* request wrote for p), a POST /login with that user's email and the same p
\* succeeds and puts the user's id into the session.
C27_PasswordRoundTrip ==
    [][\A c \in Browsers, form \in RoundTripLoginForms :
          LET u == user_by_email(lower(strip(form.email)))
          IN  ( /\ last'.request = [op |-> "login", browser |-> c, form |-> form]
                /\ u # 0
                /\ users[u].role = "business"
                /\ users[u].is_active
                /\ form.password \in SubmittedPasswords
                /\ users[u].password_hash = generate_password_hash(strip(form.password))
                /\ login(c, form) )
              => ( /\ session'[c] = u
                   /\ last'.status = 302 )]_vars

-----------------------------------------------------------------------------
(* C28. Signup is all or nothing *)

\* C28: in every state, every Business row other than the seeded "demo",
\* unless the signup that inserted it is still between its two commits, has
\* exactly one business-role User row with its business_id; so a signup that
\* was rejected has left no Business row behind.
C28_SignupAllOrNothing ==
    \A i \in 1..Len(businesses) :
        ( /\ businesses[i].business_id # DEMO
          /\ \A w \in Threads :
               ~(pc[w] = "add_user" /\ loc[w].biz_id = businesses[i].business_id) )
        => Cardinality({u \in UserIds : /\ users[u].role = "business"
                                        /\ users[u].business_id = businesses[i].business_id}) = 1

-----------------------------------------------------------------------------
(* C29. One live reset token per user *)

\* C29: once a later token has been issued to the user (in these runs every
\* token goes to the one account of ForgotForms, so the latest is "issued"),
\* a POST /reset-password arriving with an earlier token is refused and goes
\* on to no commit, and every password change is made with the token issued
\* last.
C29_OnlyLatestTokenChangesPassword ==
    [][/\ \A w \in Threads, r \in ResetRequests :
            ( /\ pc[w] = "idle"
              /\ \/ pc'[w] = "reset_commit"
                 \/ last'.request = [op |-> "reset_password", method |-> r.method,
                                     token |-> r.token, form |-> r.form]
              /\ r.token # NoToken
              /\ r.token < issued
              /\ reset_password(w, r.method, r.token, r.form) )
            => ( /\ pc'[w] = "idle"
                 /\ last'.message = "invalid or expired"
                 /\ users' = users )
       /\ \A w \in Threads :
            (pc[w] = "reset_commit" /\ reset_commit(w))
            => loc[w].request.token = issued]_vars

-----------------------------------------------------------------------------
(* C30. What a password reset touches *)

\* what a write to the row of user (0: no row) leaves alone: the number of
\* rows, every other row, and the row's own email, role, business_id, is_active
reset_frame(user) ==
    /\ Len(users') = Len(users)
    /\ \A v \in UserIds :
         /\ v # user => users'[v] = users[v]
         /\ users'[v].email = users[v].email
         /\ users'[v].role = users[v].role
         /\ users'[v].business_id = users[v].business_id
         /\ users'[v].is_active = users[v].is_active
    /\ businesses' = businesses
    /\ leads' = leads
    /\ session' = session

\* C30: a POST /forgot-password and a POST /reset-password (its check and its
\* commit) change nothing but reset_token, reset_expires_at and password_hash
\* of the user they are for: is_active, role, business_id and email of that
\* row, all other rows, businesses, leads and sessions stay as they were; and
\* the login of a business user who is not active, whatever password the row
\* holds, logs nobody in.
C30_ResetTouchesOnlyCredentials ==
    [][/\ (last'.request.op = "forgot_password" /\ last'.request.form \in ForgotForms)
          => \/ reset_frame(user_by_email(lower(strip(last'.request.form.email))))
             \/ ~forgot_password(last'.request.form)
       /\ \A w \in Threads :
            /\ (pc[w] = "idle" /\ pc'[w] = "reset_commit")
               => \/ UNCHANGED <<users, businesses, leads, session>>
                  \/ ~reset_password(w, loc'[w].request.method, loc'[w].request.token,
                                     loc'[w].request.form)
            /\ (pc[w] = "idle" /\ last'.request.op = "reset_password")
               => \/ UNCHANGED <<users, businesses, leads, session>>
                  \/ ~reset_password(w, last'.request.method, last'.request.token,
                                     last'.request.form)
            /\ pc[w] = "reset_commit"
               => (reset_frame(loc[w].user) \/ ~reset_commit(w))
       /\ last'.request.op = "login"
          => \/ ( /\ session' = session
                  /\ last'.status = 200
                  /\ last'.message \in {"pending", "invalid"} )
             \/ ~\E u \in UserIds :
                    /\ users[u].role = "business"
                    /\ ~users[u].is_active
                    /\ users[u].email = lower(strip(last'.request.form.email))
             \/ ~login(last'.request.browser, last'.request.form)]_vars

\* an owner still waiting for approval has reset the password to "q" with a
\* token and has then been answered "pending" at the login with "q"
C30_Witness ==
    /\ last.request.op = "login"
    /\ last.request.form.password = <<"q">>
    /\ last.message = "pending"
    /\ \E t \in DOMAIN accepted : accepted[t] > 0
    /\ \E u \in UserIds :
         /\ users[u].email = lower(strip(last.request.form.email))
         /\ users[u].role = "business"
         /\ ~users[u].is_active
         /\ users[u].reset_token = NoToken
         /\ users[u].password_hash = generate_password_hash(<<"q">>)

====
